---- MODULE Spec2Model ----
(***************************************************************************)
(* Model of scripts/src/supabase-migrate.js: the SQL statement splitter    *)
(* (parseSQLStatements), the sequential migration executor (runMigration,  *)
(* with executeSQL, getAccessToken and clearTokenCache) and                *)
(* runMigrationFile; and of scripts/run-migration.js, the command line     *)
(* program that calls it.                                                  *)
(*                                                                         *)
(* A JavaScript string is a sequence of one-character strings, so that     *)
(* trim, startsWith, endsWith, split and the `$$` count are computed on    *)
(* characters as the code computes them.                                   *)
(***************************************************************************)
EXTENDS Integers, Sequences, FiniteSets, TLC

(***************************************************************************)
(* Bounds of the model.                                                    *)
(***************************************************************************)
\* longest script, in lines
MaxLines == 4
\* longest statement list handed to runMigration
MaxStmts == 4
\* longest script in a migration file, in lines
MaxFileLines == 3
\* most statements of a run in which the credential is watched
MaxTokenCalls == 3

(***************************************************************************)
(* Constants of the source.                                                *)
(***************************************************************************)
\* supabase-migrate.js line 33
DEFAULT_DELAY_MS == 300
\* run-migration.js line 31: delayMs: 200
CLI_DELAY_MS == 200

(***************************************************************************)
(* Characters and strings.                                                 *)
(***************************************************************************)
NL == "\n"
SP == " "
\* the characters String.prototype.trim removes, among those of the model
WhiteSpace == {SP, NL}

\* "abc" as a sequence of characters is <<"a", "b", "c">>
EmptyStr == << >>
DASHES == <<"-", "-">>
SEMI == <<";">>

\* String.prototype.trimStart
RECURSIVE TrimStart(_)
TrimStart(s) ==
  IF s # << >> /\ Head(s) \in WhiteSpace THEN TrimStart(Tail(s)) ELSE s

\* String.prototype.trimEnd
RECURSIVE TrimEnd(_)
TrimEnd(s) ==
  IF s # << >> /\ s[Len(s)] \in WhiteSpace
  THEN TrimEnd(SubSeq(s, 1, Len(s) - 1))
  ELSE s

\* String.prototype.trim
Trim(s) == TrimEnd(TrimStart(s))

\* String.prototype.startsWith
StartsWith(s, p) == Len(s) >= Len(p) /\ SubSeq(s, 1, Len(p)) = p

\* String.prototype.endsWith
EndsWith(s, p) ==
  Len(s) >= Len(p) /\ SubSeq(s, Len(s) - Len(p) + 1, Len(s)) = p

\* (s.match(/\$\$/g) || []).length: the matches are found left to right and
\* do not overlap, so "$$$" holds one match
RECURSIVE CountDollars(_)
CountDollars(s) ==
  IF Len(s) < 2 THEN 0
  ELSE IF s[1] = "$" /\ s[2] = "$"
       THEN 1 + CountDollars(SubSeq(s, 3, Len(s)))
       ELSE CountDollars(Tail(s))

\* String.prototype.includes('$$')
IncludesDollars(s) == \E k \in 1..(Len(s) - 1) : s[k] = "$" /\ s[k + 1] = "$"

\* sql.split('\n'): the pieces between the newlines; the empty string gives
\* one empty line
RECURSIVE SplitAcc(_, _, _)
SplitAcc(s, piece, acc) ==
  IF s = << >> THEN Append(acc, piece)
  ELSE IF Head(s) = NL
       THEN SplitAcc(Tail(s), << >>, Append(acc, piece))
       ELSE SplitAcc(Tail(s), Append(piece, Head(s)), acc)

SplitLines(s) == SplitAcc(s, << >>, << >>)

(***************************************************************************)
(* parseSQLStatements.                                                     *)
(***************************************************************************)
\* mutant: only the leading blanks are removed
TrimmedLine_startOnly(line) == TrimStart(line)

\* line 187: const trimmed = line.trim()
TrimmedLine(line) == Trim(line)

\* mutant: comment lines are not dropped
SkipLine_blankOnly(inDollarQuote, trimmed) ==
  ~inDollarQuote /\ trimmed = EmptyStr

\* mutant: blank and comment lines are dropped inside a dollar-quoted body too
SkipLine_alsoInBody(inDollarQuote, trimmed) ==
  trimmed = EmptyStr \/ StartsWith(trimmed, DASHES)

\* line 190: the line is dropped
SkipLine(inDollarQuote, trimmed) ==
  ~inDollarQuote /\ (trimmed = EmptyStr \/ StartsWith(trimmed, DASHES))

\* mutant: `$$` is not looked at
ToggleDollarQuote_never(inDollarQuote, trimmed) == inDollarQuote

\* lines 195-200: an odd number of `$$` on the line flips the flag
ToggleDollarQuote(inDollarQuote, trimmed) ==
  IF IncludesDollars(trimmed) /\ CountDollars(trimmed) % 2 = 1
  THEN ~inDollarQuote
  ELSE inDollarQuote

\* line 202: current += line + '\n'
AppendLine(current, line) == current \o line \o <<NL>>

\* line 205: the statement is complete
StatementComplete(inDollarQuote, trimmed) ==
  ~inDollarQuote /\ EndsWith(trimmed, SEMI)

\* lines 206-209: push the trimmed buffer unless it is empty or a comment
PushStatement(stmts, current) ==
  LET stmt == Trim(current)
  IN  IF stmt # EmptyStr /\ ~StartsWith(stmt, DASHES)
      THEN Append(stmts, stmt)
      ELSE stmts

\* mutant: the remaining buffer is added even when it is empty
AddRemaining_always(stmts, current) == Append(stmts, Trim(current))

\* mutant: the remaining buffer is forgotten
AddRemaining_dropped(stmts, current) == stmts

\* lines 215-217: the remaining buffer
AddRemaining(stmts, current) ==
  IF Trim(current) # EmptyStr THEN Append(stmts, Trim(current)) ELSE stmts

\* lines 186-212: one iteration of the loop over the lines, on the loop state
\* [statements, current, inDollarQuote]
ScanLine(st, line) ==
  LET trimmed == TrimmedLine(line)
  IN  IF SkipLine(st.inDollarQuote, trimmed) THEN st
      ELSE LET inDQ == ToggleDollarQuote(st.inDollarQuote, trimmed)
               cur  == AppendLine(st.current, line)
           IN  IF StatementComplete(inDQ, trimmed)
               THEN [statements    |-> PushStatement(st.statements, cur),
                     current       |-> EmptyStr,
                     inDollarQuote |-> inDQ]
               ELSE [statements    |-> st.statements,
                     current       |-> cur,
                     inDollarQuote |-> inDQ]

\* lines 180-182
ScanInit ==
  [statements |-> << >>, current |-> EmptyStr, inDollarQuote |-> FALSE]

\* the loop state after the first k lines
RECURSIVE ScanLines(_, _)
ScanLines(ls, k) ==
  IF k = 0 THEN ScanInit ELSE ScanLine(ScanLines(ls, k - 1), ls[k])

parseSQLStatements(s) ==
  LET ls == SplitLines(s)
      st == ScanLines(ls, Len(ls))
  IN  AddRemaining(st.statements, st.current)

(***************************************************************************)
(* getAccessToken.                                                         *)
(***************************************************************************)
\* cachedAccessToken = null (line 36), and an unset environment variable
Null == "null"
\* a value a JavaScript `if` takes as true: neither null/undefined nor ''
Truthy(t) == t # Null /\ t # ""
\* execSync throws: no keychain entry, or no keychain
KeychainFails == <<"execSync throws">>
KEYRING_PREFIX == "go-keyring-base64:"

\* Buffer.from(base64Part, 'base64').toString('utf-8') on the payloads of the
\* model
Base64Decode(b) == IF b = "dG9rQg==" THEN "tokB" ELSE "?"

\* what `security find-generic-password` prints, trimmed and cut after the
\* keyring prefix where it has one: <<prefix, payload>> or <<token>>
KeychainOutputs == { <<KEYRING_PREFIX, "dG9rQg==">>, <<"tokK">>, <<"">> }

\* what getAccessToken gives: it threw or returned token, cache is
\* cachedAccessToken afterwards, and resolved tells that the environment or
\* the keychain was read
TokenAnswer(threw, token, cache, resolved) ==
  [threw |-> threw, token |-> token, cache |-> cache, resolved |-> resolved]

\* lines 47-74: the environment variable first, then the keychain
ResolveToken(cached, env, kc) ==
  IF Truthy(env) THEN TokenAnswer(FALSE, env, env, TRUE)
  ELSE IF kc = KeychainFails THEN TokenAnswer(TRUE, Null, cached, TRUE)
  ELSE IF Head(kc) = KEYRING_PREFIX
  THEN TokenAnswer(FALSE, Base64Decode(kc[2]), Base64Decode(kc[2]), TRUE)
  ELSE TokenAnswer(FALSE, kc[1], kc[1], TRUE)

\* mutant: the cache is never used
getAccessToken_noCache(cached, env, kc) == ResolveToken(cached, env, kc)

\* lines 42-75
getAccessToken(cached, env, kc) ==
  IF Truthy(cached) THEN TokenAnswer(FALSE, cached, cached, FALSE)
  ELSE ResolveToken(cached, env, kc)

\* lines 345-347: cachedAccessToken afterwards
clearTokenCache == Null

(***************************************************************************)
(* State.                                                                  *)
(***************************************************************************)
VARIABLES
  sql,                \* parseSQLStatements: the script
  parsePc,            \* "idle", "call" or "done"
  parsed,             \* parseSQLStatements: the array returned
  statements,         \* runMigration: the statement list
  stopOnError,        \* runMigration: options.stopOnError
  delayMs,            \* runMigration: options.delayMs
  silent,             \* runMigration: options.silent
  pc,                 \* runMigration: "idle", "loop", "exec", "delay",
                      \*   "halt", "done" or "thrown"
  i,                  \* runMigration: the loop index (0-based)
  successful,
  failed,
  errors,
  result,             \* the MigrationResult returned, NoResult before
  calls,              \* history: the requests sent to the remote endpoint
  log,                \* history: the lines runMigration and executeSQL print
  delays,             \* history: the delays waited
  cachedAccessToken,  \* line 36
  envToken,           \* process.env.SUPABASE_ACCESS_TOKEN
  keychain,           \* what the keychain lookup gives
  tokenLog,           \* history: the tokens getAccessToken returned
  cleared,            \* clearTokenCache was called since the last of them
  first,              \* an earlier run of the same process, NoFirst if none
  file,               \* run-migration.js: what the path argument leads to
  filePc,             \* runMigrationFile: "idle", "called", "running",
                      \*   "returned" or "thrown"
  cliPc               \* run-migration.js: "idle", "main", "usage", "failed",
                      \*   "completed" or "fatal"

parseVars == <<sql, parsePc, parsed>>
inputVars == <<statements, stopOnError, delayMs, silent>>
runVars == <<statements, stopOnError, delayMs, silent, pc, i, successful,
             failed, errors, result, calls, log, delays>>
envVars == <<envToken, keychain>>
tokenVars == <<cachedAccessToken, envToken, keychain, tokenLog, cleared>>
fileVars == <<file, filePc, cliPc>>
vars == <<sql, parsePc, parsed, statements, stopOnError, delayMs, silent, pc,
          i, successful, failed, errors, result, calls, log, delays,
          cachedAccessToken, envToken, keychain, tokenLog, cleared, first,
          file, filePc, cliPc>>

NoResult == [total |-> -1, successful |-> -1, failed |-> -1, errors |-> << >>]

\* no run came before this one
NoFirst == [pc |-> "none", calls |-> << >>, result |-> NoResult,
            log |-> << >>]

\* run-migration.js line 16: no path argument; line 235: no file at the path
NoArgument == <<"no argument">>
NoFile == <<"no file">>

(***************************************************************************)
(* Inputs.                                                                 *)
(***************************************************************************)
\* the lines scripts are made of: empty, blank, comments (one holds `$$`, one
\* ends in ';'), an unterminated line, terminated lines with and without
\* surrounding blanks, a line that starts with one dash, and lines with one
\* or two `$$`
ScriptLines ==
  { << >>,
    <<" ">>,
    <<"-", "-", "$", "$">>,
    <<" ", "-", "-", ";">>,
    <<"a">>,
    <<"a", ";">>,
    <<" ", "b", ";", " ">>,
    <<"-", ";">>,
    <<"$", "$">>,
    <<"$", "$", ";">>,
    <<"a", " ", "$", "$">>,
    <<"$", "$", "$", "$", ";">> }

RECURSIVE SeqsUpTo(_, _)
SeqsUpTo(S, n) ==
  IF n = 0 THEN { << >> }
  ELSE LET shorter == SeqsUpTo(S, n - 1)
       IN  shorter \cup { Append(q, x) : q \in shorter, x \in S }

\* lines.join('\n')
RECURSIVE JoinLines(_)
JoinLines(ls) ==
  IF Len(ls) = 0 THEN << >>
  ELSE IF Len(ls) = 1 THEN ls[1]
  ELSE ls[1] \o <<NL>> \o JoinLines(Tail(ls))

\* the scripts of n lines
ScriptsOf(n) == { JoinLines(ls) : ls \in [1..n -> ScriptLines] }

\* the entries of a statement list: a statement, a statement with blanks
\* around it, a blank entry and a comment
StatementPool ==
  { <<"a", ";">>,
    <<" ">>,
    <<" ", "-", "-", "c">> }

StatementLists == SeqsUpTo(StatementPool, MaxStmts)

\* the text of a failed response (line 113) and the message of a transport
\* error (line 117)
ResponseText == "relation already exists"
ErrorMessage == "fetch failed"
Failures ==
  { [outcome |-> "rejected", detail |-> ResponseText],
    [outcome |-> "threw", detail |-> ErrorMessage] }

\* options.delayMs: the default (line 131) and what run-migration.js passes
DelayChoices == {DEFAULT_DELAY_MS, CLI_DELAY_MS}

\* the environment variable and the keychain, as getAccessToken finds them
EnvTokens == {Null, "tokE"}
Keychains == KeychainOutputs \cup {KeychainFails}

(***************************************************************************)
(* What is printed.                                                        *)
(***************************************************************************)
LogLine(kind, a, b, text, detail) ==
  [kind |-> kind, a |-> a, b |-> b, text |-> text, detail |-> detail]

\* line 134
HeaderLine(stmts) == LogLine("Running migration", Len(stmts), 0, << >>, "")
\* line 146
ProgressLine(index, stmts) == LogLine("[i/n]", index + 1, Len(stmts), << >>, "")
\* line 105
OkLine(query) == LogLine("ok", 0, 0, query, "")
\* lines 112, 116
FailLine(query, detail) == LogLine("failed", 0, 0, query, detail)
\* line 156
StopLine == LogLine("Stopping due to error", 0, 0, << >>, "")
\* line 167
CompleteLine(s, f) == LogLine("Migration complete", s, f, << >>, "")

\* lines 133, 145, 166: if (!silent) console.log(...)
LogUnlessSilent(quiet, lines, line) ==
  IF quiet THEN lines ELSE Append(lines, line)

(***************************************************************************)
(* parseSQLStatements as a call.                                           *)
(***************************************************************************)
\* runMigration has not been called
RunIdle ==
  /\ statements = << >>
  /\ pc = "idle"
  /\ i = 0
  /\ successful = 0
  /\ failed = 0
  /\ errors = << >>
  /\ result = NoResult
  /\ calls = << >>
  /\ log = << >>
  /\ delays = << >>

\* line 131: the options left out
DefaultOptions ==
  /\ stopOnError = FALSE
  /\ delayMs = DEFAULT_DELAY_MS
  /\ silent = FALSE

\* line 36: the module has just been loaded
TokenInit ==
  /\ cachedAccessToken = Null
  /\ tokenLog = << >>
  /\ cleared = FALSE
  /\ first = NoFirst

\* neither run-migration.js nor runMigrationFile is in use
NoFileRun ==
  /\ file = NoArgument
  /\ filePc = "idle"
  /\ cliPc = "idle"

InitParse ==
  /\ \E n \in 1..MaxLines : sql \in ScriptsOf(n)
  /\ parsePc = "call"
  /\ parsed = << >>
  /\ RunIdle
  /\ DefaultOptions
  /\ TokenInit
  /\ envToken = Null
  /\ keychain = KeychainFails
  /\ NoFileRun

ParseCall ==
  /\ parsePc = "call"
  /\ parsed' = parseSQLStatements(sql)
  /\ parsePc' = "done"
  /\ UNCHANGED <<sql, runVars, tokenVars, first, fileVars>>

NextParse == ParseCall

SpecParse == InitParse /\ [][NextParse]_vars

(***************************************************************************)
(* runMigration.                                                           *)
(***************************************************************************)
\* line 143: the entry is skipped
SkipStatement(stmt) == stmt = EmptyStr \/ StartsWith(stmt, DASHES)

\* mutant: the error carries the 0-based loop index
ErrorEntry_zeroBased(index, detail) == <<"Statement ", index, ": ", detail>>

\* line 154: `Statement ${i + 1}: ${result.error}`
ErrorEntry(index, detail) == <<"Statement ", index + 1, ": ", detail>>

\* mutant: a delay follows every statement, the last one too
DelayFollows_always(index, stmts) == TRUE

\* line 161: a delay follows the statement at index
DelayFollows(index, stmts) == index < Len(stmts) - 1

\* mutant: the index is not advanced, the same entry comes again
NextIndex_stay(index) == index

\* line 141: i++
NextIndex(index) == index + 1

\* mutant: stopOnError is ignored
AfterStatement_noHalt(failedNow, stop, index, stmts) ==
  IF index < Len(stmts) - 1 THEN "delay" ELSE "loop"

\* lines 150-163: where the loop goes once the statement at index has its
\* answer: out of the loop (break), into the delay, or on to the next index
AfterStatement(failedNow, stop, index, stmts) ==
  IF failedNow /\ stop THEN "halt"
  ELSE IF DelayFollows(index, stmts) THEN "delay"
  ELSE "loop"

\* mutant: total counts the statements processed
MigrationResult_processed(stmts, s, f, errs) ==
  [total |-> s + f, successful |-> s, failed |-> f, errors |-> errs]

\* mutant: the two counters change places
MigrationResult_swapped(stmts, s, f, errs) ==
  [total |-> Len(stmts), successful |-> f, failed |-> s, errors |-> errs]

\* line 170
MigrationResult(stmts, s, f, errs) ==
  [total |-> Len(stmts), successful |-> s, failed |-> f, errors |-> errs]

\* the last request sent has got its answer
Answered(outcome) ==
  [calls EXCEPT ![Len(calls)] = [@ EXCEPT !.outcome = outcome]]

\* lines 131-139: runMigration has been called and is at the top of its loop
RunEntered ==
  /\ pc = "loop"
  /\ i = 0
  /\ successful = 0
  /\ failed = 0
  /\ errors = << >>
  /\ result = NoResult
  /\ calls = << >>
  /\ log = LogUnlessSilent(silent, << >>, HeaderLine(statements))
  /\ delays = << >>

Init ==
  /\ sql = << >>
  /\ parsePc = "idle"
  /\ parsed = << >>
  /\ statements \in StatementLists
  /\ stopOnError \in BOOLEAN
  /\ delayMs \in DelayChoices
  /\ silent \in BOOLEAN
  /\ RunEntered
  /\ TokenInit
  /\ \/ envToken = "tokE" /\ keychain = KeychainFails
     \/ envToken = Null /\ keychain \in Keychains
  /\ NoFileRun

\* lines 141-143: an empty or comment entry is passed over (continue)
SkipEntry ==
  /\ pc = "loop"
  /\ i < Len(statements)
  /\ SkipStatement(Trim(statements[i + 1]))
  /\ i' = NextIndex(i)
  /\ UNCHANGED <<parseVars, inputVars, pc, successful, failed, errors, result,
                 calls, log, delays, tokenVars, first, fileVars>>

\* mutant: the request is sent and the loop goes on without its answer
Submit_noAwait ==
  /\ pc = "loop"
  /\ i < Len(statements)
  /\ ~SkipStatement(Trim(statements[i + 1]))
  /\ LET tok == getAccessToken(cachedAccessToken, envToken, keychain)
     IN  /\ ~tok.threw
         /\ cachedAccessToken' = tok.cache
         /\ calls' = Append(calls, [position |-> i + 1,
                                    query    |-> Trim(statements[i + 1]),
                                    token    |-> tok.token,
                                    outcome  |-> "pending"])
         /\ tokenLog' = Append(tokenLog, [token    |-> tok.token,
                                          resolved |-> tok.resolved,
                                          cleared  |-> cleared])
  /\ cleared' = FALSE
  /\ log' = LogUnlessSilent(silent, log, ProgressLine(i, statements))
  /\ i' = NextIndex(i)
  /\ UNCHANGED <<parseVars, inputVars, pc, successful, failed, errors, result,
                 delays, envVars, first, fileVars>>

\* lines 145-148, 88-100: executeSQL resolves the credential and sends the
\* request
Submit ==
  /\ pc = "loop"
  /\ i < Len(statements)
  /\ ~SkipStatement(Trim(statements[i + 1]))
  /\ LET tok == getAccessToken(cachedAccessToken, envToken, keychain)
     IN  /\ ~tok.threw
         /\ cachedAccessToken' = tok.cache
         /\ calls' = Append(calls, [position |-> i + 1,
                                    query    |-> Trim(statements[i + 1]),
                                    token    |-> tok.token,
                                    outcome  |-> "pending"])
         /\ tokenLog' = Append(tokenLog, [token    |-> tok.token,
                                          resolved |-> tok.resolved,
                                          cleared  |-> cleared])
  /\ cleared' = FALSE
  /\ log' = LogUnlessSilent(silent, log, ProgressLine(i, statements))
  /\ pc' = "exec"
  /\ UNCHANGED <<parseVars, inputVars, i, successful, failed, errors, result,
                 delays, envVars, first, fileVars>>

\* lines 145-148, 90, 69-73: getAccessToken throws before the request is
\* made, and the promise of runMigration is rejected
SubmitThrows ==
  /\ pc = "loop"
  /\ i < Len(statements)
  /\ ~SkipStatement(Trim(statements[i + 1]))
  /\ getAccessToken(cachedAccessToken, envToken, keychain).threw
  /\ log' = LogUnlessSilent(silent, log, ProgressLine(i, statements))
  /\ pc' = "thrown"
  /\ UNCHANGED <<parseVars, inputVars, i, successful, failed, errors, result,
                 calls, delays, tokenVars, first, fileVars>>

\* mutant: a silent run does not count the statements that succeed
ExecSucceeds_silentUncounted ==
  /\ pc = "exec"
  /\ calls' = Answered("ok")
  /\ successful' = IF silent THEN successful ELSE successful + 1
  /\ log' = Append(log, OkLine(calls[Len(calls)].query))
  /\ pc' = AfterStatement(FALSE, stopOnError, i, statements)
  /\ i' = IF pc' = "loop" THEN NextIndex(i) ELSE i
  /\ UNCHANGED <<parseVars, inputVars, failed, errors, result, delays,
                 tokenVars, first, fileVars>>

\* lines 104-110, 150-151, 161-163: the response is ok
ExecSucceeds ==
  /\ pc = "exec"
  /\ calls' = Answered("ok")
  /\ successful' = successful + 1
  /\ log' = Append(log, OkLine(calls[Len(calls)].query))
  /\ pc' = AfterStatement(FALSE, stopOnError, i, statements)
  /\ i' = IF pc' = "loop" THEN NextIndex(i) ELSE i
  /\ UNCHANGED <<parseVars, inputVars, failed, errors, result, delays,
                 tokenVars, first, fileVars>>

\* lines 111-118, 152-163: the response is not ok, or fetch or
\* response.text() throws
ExecFails ==
  /\ pc = "exec"
  /\ \E f \in Failures :
       /\ calls' = Answered(f.outcome)
       /\ errors' = Append(errors, ErrorEntry(i, f.detail))
       /\ log' = LET told == Append(log, FailLine(calls[Len(calls)].query,
                                                  f.detail))
                 IN  IF stopOnError THEN Append(told, StopLine) ELSE told
  /\ failed' = failed + 1
  /\ pc' = AfterStatement(TRUE, stopOnError, i, statements)
  /\ i' = IF pc' = "loop" THEN NextIndex(i) ELSE i
  /\ UNCHANGED <<parseVars, inputVars, successful, result, delays, tokenVars,
                 first, fileVars>>

\* lines 161-163, 141: the delay is over, on to the next index
DelayDone ==
  /\ pc = "delay"
  /\ delays' = Append(delays, [after |-> i + 1, ms |-> delayMs])
  /\ i' = NextIndex(i)
  /\ pc' = "loop"
  /\ UNCHANGED <<parseVars, inputVars, successful, failed, errors, result,
                 calls, log, tokenVars, first, fileVars>>

\* lines 141, 157, 166-170: the loop is left, the result is returned
Return ==
  /\ \/ pc = "loop" /\ i >= Len(statements)
     \/ pc = "halt"
  /\ result' = MigrationResult(statements, successful, failed, errors)
  /\ log' = LogUnlessSilent(silent, log, CompleteLine(successful, failed))
  /\ pc' = "done"
  /\ UNCHANGED <<parseVars, inputVars, i, successful, failed, errors, calls,
                 delays, tokenVars, first, fileVars>>

Next ==
  \/ SkipEntry
  \/ Submit
  \/ SubmitThrows
  \/ ExecSucceeds
  \/ ExecFails
  \/ DelayDone
  \/ Return

Spec == Init /\ [][Next]_vars

(***************************************************************************)
(* runMigrationFile and run-migration.js.                                  *)
(***************************************************************************)
\* mutant: a missing file is taken for a file of one statement
FileNotFoundResult_oneStatement ==
  [total |-> 1, successful |-> 0, failed |-> 0, errors |-> <<"File not found">>]

\* supabase-migrate.js line 237
FileNotFoundResult ==
  [total |-> 0, successful |-> 0, failed |-> 0, errors |-> <<"File not found">>]

\* mutant: the exit status does not look at the failures
CliOutcome_alwaysCompleted(res) == "completed"

\* run-migration.js lines 41-50: process.exit(1), or the success message
CliOutcome(res) == IF res.failed > 0 THEN "failed" ELSE "completed"

\* the exit status of the process: lines 19, 47 and 55 exit with 1, and main
\* returning at line 50 leaves 0
ExitStatus(at) == IF at \in {"usage", "failed", "fatal"} THEN 1 ELSE 0

\* the process is started with or without a path, or a program of its own
\* calls runMigrationFile with a path, or runMigration with a list
InitFile ==
  /\ sql = << >>
  /\ parsePc = "idle"
  /\ parsed = << >>
  /\ TokenInit
  /\ \/ envToken = "tokE" /\ keychain = KeychainFails
     \/ envToken = Null /\ keychain \in {KeychainFails, <<"tokK">>}
  /\ delayMs = DEFAULT_DELAY_MS
  /\ silent = FALSE
  /\ \/ /\ cliPc = "main"
        /\ filePc = "idle"
        /\ \/ file \in {NoArgument, NoFile}
           \/ \E n \in 1..MaxFileLines : file \in ScriptsOf(n)
        /\ stopOnError = FALSE
        /\ RunIdle
     \/ /\ cliPc = "idle"
        /\ filePc = "called"
        /\ \/ file = NoFile
           \/ \E n \in 1..MaxFileLines : file \in ScriptsOf(n)
        /\ stopOnError \in BOOLEAN
        /\ RunIdle
     \/ /\ NoFileRun
        /\ statements \in SeqsUpTo(StatementPool, MaxFileLines)
        /\ stopOnError \in BOOLEAN
        /\ RunEntered

\* run-migration.js lines 14-20: no argument
CliUsage ==
  /\ cliPc = "main"
  /\ filePc = "idle"
  /\ file = NoArgument
  /\ cliPc' = "usage"
  /\ UNCHANGED <<parseVars, runVars, tokenVars, first, file, filePc>>

\* run-migration.js lines 22-33: runMigrationFile is called
CliCallsFile ==
  /\ cliPc = "main"
  /\ filePc = "idle"
  /\ file # NoArgument
  /\ filePc' = "called"
  /\ delayMs' = CLI_DELAY_MS
  /\ stopOnError' = FALSE
  /\ UNCHANGED <<parseVars, statements, silent, pc, i, successful, failed,
                 errors, result, calls, log, delays, tokenVars, first, file,
                 cliPc>>

\* supabase-migrate.js lines 235-238: there is no file at the path
FileNotFound ==
  /\ filePc = "called"
  /\ file = NoFile
  /\ result' = FileNotFoundResult
  /\ filePc' = "returned"
  /\ UNCHANGED <<parseVars, inputVars, pc, i, successful, failed, errors,
                 calls, log, delays, tokenVars, first, file, cliPc>>

\* supabase-migrate.js lines 240-246, 131-139: the file is read and split,
\* and runMigration is called with the statements
ReadAndParse ==
  /\ filePc = "called"
  /\ file # NoFile
  /\ sql' = file
  /\ parsed' = parseSQLStatements(file)
  /\ parsePc' = "done"
  /\ statements' = parsed'
  /\ pc' = "loop"
  /\ log' = LogUnlessSilent(silent, << >>, HeaderLine(statements'))
  /\ filePc' = "running"
  /\ UNCHANGED <<stopOnError, delayMs, silent, i, successful, failed, errors,
                 result, calls, delays, tokenVars, first, file, cliPc>>

\* supabase-migrate.js line 246: the result of runMigration is returned
FileReturns ==
  /\ filePc = "running"
  /\ pc = "done"
  /\ filePc' = "returned"
  /\ UNCHANGED <<parseVars, runVars, tokenVars, first, file, cliPc>>

\* supabase-migrate.js line 246: what runMigration throws is thrown on
FileThrows ==
  /\ filePc = "running"
  /\ pc = "thrown"
  /\ filePc' = "thrown"
  /\ UNCHANGED <<parseVars, runVars, tokenVars, first, file, cliPc>>

\* run-migration.js lines 35-50
CliReports ==
  /\ cliPc = "main"
  /\ filePc = "returned"
  /\ cliPc' = CliOutcome(result)
  /\ UNCHANGED <<parseVars, runVars, tokenVars, first, file, filePc>>

\* run-migration.js lines 53-56
CliFatal ==
  /\ cliPc = "main"
  /\ filePc = "thrown"
  /\ cliPc' = "fatal"
  /\ UNCHANGED <<parseVars, runVars, tokenVars, first, file, filePc>>

NextFile ==
  \/ CliUsage
  \/ CliCallsFile
  \/ FileNotFound
  \/ ReadAndParse
  \/ FileReturns
  \/ FileThrows
  \/ CliReports
  \/ CliFatal
  \/ SkipEntry
  \/ Submit
  \/ SubmitThrows
  \/ ExecSucceeds
  \/ ExecFails
  \/ DelayDone
  \/ Return

SpecFile == InitFile /\ [][NextFile]_vars

(***************************************************************************)
(* Two calls of runMigration in one process, the second with the other     *)
(* value of options.silent and the same answers from the remote endpoint.  *)
(***************************************************************************)
\* what is kept of a call of runMigration that is over
RunRecord == [pc |-> pc, calls |-> calls, result |-> result, log |-> log]

\* lines 130-139: runMigration is called again once the first call is over,
\* with the same statements and options but for silent
Rerun ==
  /\ first = NoFirst
  /\ pc \in {"done", "thrown"}
  /\ first' = RunRecord
  /\ silent' = ~silent
  /\ pc' = "loop"
  /\ i' = 0
  /\ successful' = 0
  /\ failed' = 0
  /\ errors' = << >>
  /\ result' = NoResult
  /\ calls' = << >>
  /\ log' = LogUnlessSilent(silent', << >>, HeaderLine(statements))
  /\ delays' = << >>
  /\ UNCHANGED <<parseVars, statements, stopOnError, delayMs, tokenVars,
                 fileVars>>

\* the request just answered got the answer it got in the first call
SameAnswer ==
  \/ first = NoFirst
  \/ Len(calls) > Len(first.calls)
  \/ calls'[Len(calls)].outcome = first.calls[Len(calls)].outcome

AnswerOk == ExecSucceeds /\ SameAnswer

AnswerFailure == ExecFails /\ SameAnswer

NextSilent ==
  \/ SkipEntry
  \/ Submit
  \/ SubmitThrows
  \/ AnswerOk
  \/ AnswerFailure
  \/ DelayDone
  \/ Return
  \/ Rerun

SpecSilent == Init /\ [][NextSilent]_vars

(***************************************************************************)
(* runMigration in a process where the environment variable and the        *)
(* keychain change and clearTokenCache is called while it runs.            *)
(***************************************************************************)
InitToken ==
  /\ sql = << >>
  /\ parsePc = "idle"
  /\ parsed = << >>
  /\ statements \in SeqsUpTo(StatementPool, MaxTokenCalls)
  /\ DefaultOptions
  /\ RunEntered
  /\ TokenInit
  /\ envToken \in EnvTokens
  /\ keychain \in Keychains
  /\ NoFileRun

\* lines 148, 162: other code of the process runs only while runMigration
\* awaits the answer or the delay
Awaiting == pc \in {"exec", "delay"}

\* the variable is set or unset, the user logs in or out
EnvChanges ==
  /\ Awaiting
  /\ envToken' \in EnvTokens
  /\ keychain' \in Keychains
  /\ <<envToken', keychain'>> # <<envToken, keychain>>
  /\ UNCHANGED <<parseVars, runVars, cachedAccessToken, tokenLog, cleared,
                 first, fileVars>>

\* lines 345-347
ClearTokenCache ==
  /\ Awaiting
  /\ cachedAccessToken' = clearTokenCache
  /\ cleared' = TRUE
  /\ UNCHANGED <<parseVars, runVars, envVars, tokenLog, first, fileVars>>

NextToken ==
  \/ SkipEntry
  \/ Submit
  \/ SubmitThrows
  \/ ExecSucceeds
  \/ ExecFails
  \/ DelayDone
  \/ Return
  \/ EnvChanges
  \/ ClearTokenCache

SpecToken == InitToken /\ [][NextToken]_vars

(***************************************************************************)
(* Properties of runMigration, checked under Spec.                         *)
(***************************************************************************)
FailedOutcomes == {"rejected", "threw"}

\* the requests, by index in the history, whose outcome is among outs
CallsWith(outs) == { k \in DOMAIN calls : calls[k].outcome \in outs }

\* the input positions that have been submitted
SubmittedPositions == { calls[k].position : k \in DOMAIN calls }

\* a Statement of the data model: not empty and not a comment once trimmed
Executable(stmt) ==
  LET t == Trim(stmt)
  IN  Len(t) > 0 /\ ~(Len(t) >= 2 /\ t[1] = "-" /\ t[2] = "-")

ExecutablePositions ==
  { k \in 1..Len(statements) : Executable(statements[k]) }

\* the run was halted by stopOnError at a failure before the last position
HaltedEarly ==
  /\ stopOnError
  /\ \E k \in CallsWith(FailedOutcomes) : calls[k].position < Len(statements)

\* the error list the failed requests of a history call for, in their order
RECURSIVE ExpectedErrors(_)
ExpectedErrors(cs) ==
  IF cs = << >> THEN << >>
  ELSE LET c == Head(cs)
           rest == ExpectedErrors(Tail(cs))
       IN  IF c.outcome = "rejected"
           THEN <<<<"Statement ", c.position, ": ", ResponseText>>>> \o rest
           ELSE IF c.outcome = "threw"
           THEN <<<<"Statement ", c.position, ": ", ErrorMessage>>>> \o rest
           ELSE rest

\* C1: the statements are submitted in strictly increasing input position:
\* none is submitted before one of a smaller position, none is submitted
\* twice (failed or not), and only the latest request can be unanswered.
C1_SubmittedInOrder ==
  /\ \A j, k \in DOMAIN calls :
       j < k => calls[j].position < calls[k].position
  /\ \A k \in DOMAIN calls :
       /\ calls[k].position \in 1..Len(statements)
       /\ calls[k].query = Trim(statements[calls[k].position])
       /\ calls[k].outcome = "pending" => k = Len(calls) /\ pc = "exec"

\* C1: a run that is over, with three requests of which the first failed
C1_Witness ==
  /\ pc = "done"
  /\ Len(calls) >= 3
  /\ calls[1].outcome \in FailedOutcomes

\* C2 as stated: every result returned has total = successful + failed.
C2_TotalIsSum ==
  pc = "done" => result.total = result.successful + result.failed

\* C2 amended: total is the length of the input and successful + failed is
\* the number of statements submitted, so successful + failed <= total, with
\* equality exactly when no entry is empty or a comment and stopOnError did
\* not halt the run at a failure before the last position.
C2_SumAtMostTotal ==
  pc = "done" =>
    /\ result.total = Len(statements)
    /\ result.successful + result.failed = Len(calls)
    /\ result.successful + result.failed <= result.total
    /\ (result.successful + result.failed = result.total)
         <=> (ExecutablePositions = 1..Len(statements) /\ ~HaltedEarly)

\* C2: a result whose sum falls short of total, in a run halted by
\* stopOnError after an entry had been skipped
C2_Witness ==
  /\ pc = "done"
  /\ HaltedEarly
  /\ ExecutablePositions # 1..Len(statements)
  /\ result.successful >= 1
  /\ result.successful + result.failed < result.total

\* C3: with stopOnError, once the statement at position k has failed no
\* statement of a position > k is submitted (in no state of the run), and
\* the result has failed = 1, successful = the number of statements that
\* succeeded before k, and successful + failed < total when k is not the
\* last position.
C3_StopOnError ==
  stopOnError =>
    \A k \in CallsWith(FailedOutcomes) :
      /\ k = Len(calls)
      /\ pc \in {"halt", "done"}
      /\ pc = "done" =>
           /\ result.failed = 1
           /\ result.successful =
                Cardinality({ j \in CallsWith({"ok"}) :
                                calls[j].position < calls[k].position })
           /\ result.errors = ExpectedErrors(<<calls[k]>>)
           /\ calls[k].position < Len(statements) =>
                result.successful + result.failed < result.total

\* C3: statement 2 of 4 failed under stopOnError: successful = 1, failed = 1,
\* statements 3 and 4 not submitted
C3_Witness ==
  /\ pc = "done"
  /\ stopOnError
  /\ Len(statements) = 4
  /\ ExecutablePositions = 1..4
  /\ SubmittedPositions = {1, 2}
  /\ result.successful = 1
  /\ result.failed = 1

\* C4: without stopOnError a failure does not end the batch: the loop is
\* not left before the end of the list, every later Statement (every entry
\* that is not empty and not a comment; all of them when the list holds
\* Statements only) is submitted, and the result has total = the input
\* length, failed = the number of failed requests, successful = the number
\* of successful ones, and one error per failed request, in the order of
\* execution, with the 1-based input position.
C4_ContinueOnError ==
  ~stopOnError =>
    /\ pc # "halt"
    /\ pc = "thrown" => calls = << >>
    /\ pc = "done" =>
         /\ SubmittedPositions = ExecutablePositions
         /\ result.total = Len(statements)
         /\ result.failed = Cardinality(CallsWith(FailedOutcomes))
         /\ result.successful = Cardinality(CallsWith({"ok"}))
         /\ result.errors = ExpectedErrors(calls)
         /\ Len(result.errors) = result.failed

\* C4: statement 2 of 4 failed without stopOnError: total = 4,
\* successful = 3, failed = 1, one error, for position 2
C4_Witness ==
  /\ pc = "done"
  /\ ~stopOnError
  /\ SubmittedPositions = {1, 2, 3, 4}
  /\ calls[2].outcome = "rejected"
  /\ result.total = 4
  /\ result.successful = 3
  /\ result.failed = 1
  /\ result.errors = <<<<"Statement ", 2, ": ", ResponseText>>>>

\* C5: when every request succeeds, the result has failed = 0, no error and
\* successful = the number of Statements of the list: its length N when the
\* list holds Statements only (N = 0 included).
C5_AllSucceed ==
  (pc = "done" /\ CallsWith(FailedOutcomes) = {}) =>
    /\ result.failed = 0
    /\ result.errors = << >>
    /\ result.successful = Cardinality(ExecutablePositions)
    /\ ExecutablePositions = 1..Len(statements) =>
         /\ result.successful = Len(statements)
         /\ result.successful = result.total

\* C5: a list of three Statements, all of them successful
C5_Witness ==
  /\ pc = "done"
  /\ Len(statements) = 3
  /\ ExecutablePositions = 1..3
  /\ CallsWith({"ok"}) = 1..3
  /\ result.successful = 3

(***************************************************************************)
(* Properties of parseSQLStatements, checked under SpecParse.  The lines   *)
(* of the script are described from the script alone: which lie inside a   *)
(* dollar-quoted body, which are kept, which end a statement.              *)
(***************************************************************************)
InputLines == SplitLines(sql)

\* blank, or a comment, after trimming
BlankOrComment(line) ==
  LET t == Trim(line)
  IN  Len(t) = 0 \/ (Len(t) >= 2 /\ t[1] = "-" /\ t[2] = "-")

EndsInSemicolon(line) ==
  LET t == Trim(line)
  IN  Len(t) >= 1 /\ t[Len(t)] = ";"

\* what the script says of each of its lines, from line k on, open telling
\* whether a dollar-quoted body is open before line k:
\*   inBody: the line lies inside a dollar-quoted body (a kept line with an
\*           odd number of `$$` opens or closes one),
\*   kept:   the line is not skipped (it lies inside a body, or is neither
\*           blank nor a comment),
\*   opens:  the line opens a body,
\*   ends:   the line ends a statement (kept, ending in ';', no body left
\*           open after it)
RECURSIVE MarksFrom(_, _, _)
MarksFrom(ls, k, open) ==
  IF k > Len(ls) THEN << >>
  ELSE LET kept == open \/ ~BlankOrComment(ls[k])
           after == IF kept /\ CountDollars(ls[k]) % 2 = 1
                    THEN ~open
                    ELSE open
       IN  << [inBody |-> open,
               kept   |-> kept,
               opens  |-> ~open /\ after,
               ends   |-> kept /\ EndsInSemicolon(ls[k]) /\ ~after] >>
             \o MarksFrom(ls, k + 1, after)

LineMarks(ls) == MarksFrom(ls, 1, FALSE)

StatementEnds(m) == { k \in 1..Len(m) : m[k].ends }

SetMax(S) == CHOOSE x \in S : \A y \in S : y <= x
SetMin(S) == CHOOSE x \in S : \A y \in S : x <= y

\* the kept lines among lines from..to, in order
RECURSIVE KeptBetween(_, _, _, _)
KeptBetween(ls, m, from, to) ==
  IF from > to THEN << >>
  ELSE IF m[from].kept
       THEN <<ls[from]>> \o KeptBetween(ls, m, from + 1, to)
       ELSE KeptBetween(ls, m, from + 1, to)

KeptLines(ls) == KeptBetween(ls, LineMarks(ls), 1, Len(ls))

\* the kept lines after the last line that ends a statement
Remainder(ls, m) ==
  KeptBetween(ls, m, SetMax(StatementEnds(m) \cup {0}) + 1, Len(ls))

\* the last line of the block that line o opens: the first line after it
\* that ends a statement, or the last line of the script
BlockEnd(m, o) ==
  LET later == { k \in StatementEnds(m) : k > o }
  IN  IF later = {} THEN Len(m) ELSE SetMin(later)

\* C6: no statement ends at a line inside a dollar-quoted body: the
\* statements returned are as many as the lines that end a statement outside
\* every body (and one more for what remains at the end), each statement but
\* the last holds an even number of `$$`, and for every line that opens a
\* body the text from that line through the first semicolon-terminated line
\* after the body is closed is the end of one statement.
C6_DollarQuoteNotSplit ==
  parsePc = "done" =>
    LET ls == InputLines
        m == LineMarks(ls)
    IN  /\ Len(parsed) = Cardinality(StatementEnds(m))
                           + (IF Remainder(ls, m) = << >> THEN 0 ELSE 1)
        /\ \A k \in 1..(Len(parsed) - 1) : CountDollars(parsed[k]) % 2 = 0
        /\ \A o \in 1..Len(ls) :
             m[o].opens =>
               \E k \in 1..Len(parsed) :
                 EndsWith(parsed[k],
                          Trim(JoinLines(KeptBetween(ls, m, o, BlockEnd(m, o)))))

\* C6: a function body with a semicolon-terminated line and a comment in it,
\* then another statement
C6_Witness ==
  /\ parsePc = "done"
  /\ InputLines = << <<"a", " ", "$", "$">>, <<"a", ";">>,
                     <<"$", "$", ";">>, <<"a", ";">> >>
  /\ parsed = << <<"a", " ", "$", "$", NL, "a", ";", NL, "$", "$", ";">>,
                 <<"a", ";">> >>

\* the script holds no `$$`
NoDollars(ls) ==
  \A k \in 1..Len(ls) :
    \A j \in 1..(Len(ls[k]) - 1) : ~(ls[k][j] = "$" /\ ls[k][j + 1] = "$")

ContentLines(ls) == { k \in 1..Len(ls) : ~BlankOrComment(ls[k]) }

\* every statement of the script ends in ';': its last line that is neither
\* blank nor a comment does
AllTerminated(ls) ==
  ContentLines(ls) = {} \/ EndsInSemicolon(ls[SetMax(ContentLines(ls))])

\* C7: for a script without `$$` in which every statement ends in ';', the
\* statements returned are as many as the lines that are not blank, are not
\* comments and end in ';' (after trimming).
C7_CountsTerminatedLines ==
  parsePc = "done" =>
    LET ls == InputLines
    IN  (NoDollars(ls) /\ AllTerminated(ls)) =>
          Len(parsed) =
            Cardinality({ k \in ContentLines(ls) : EndsInSemicolon(ls[k]) })

\* C7: a comment that ends in ';', a statement of two lines with blanks
\* around its terminator, and a statement of one line
C7_Witness ==
  /\ parsePc = "done"
  /\ InputLines = << <<" ", "-", "-", ";">>, <<"a">>,
                     <<" ", "b", ";", " ">>, <<"a", ";">> >>
  /\ NoDollars(InputLines)
  /\ AllTerminated(InputLines)
  /\ Len(parsed) = 2

\* C8: a script of blank lines and comment lines only, the empty script
\* included, gives no statement.
C8_CommentsOnlyGiveNothing ==
  (/\ parsePc = "done"
   /\ \A k \in 1..Len(InputLines) : BlankOrComment(InputLines[k]))
    => parsed = << >>

\* C8: a script of a comment that holds `$$`, a blank line, a comment that
\* ends in ';' and an empty last line
C8_Witness ==
  /\ parsePc = "done"
  /\ InputLines = << <<"-", "-", "$", "$">>, <<" ">>, <<" ", "-", "-", ";">>,
                     << >> >>
  /\ parsed = << >>

\* C9: when the scan ends with a non-empty buffer, that is when kept lines
\* follow the last line that ends a statement, the buffer, trimmed, is the
\* last statement returned, after the semicolon-terminated statements, which
\* keep their order.
C9_RemainderIsLast ==
  parsePc = "done" =>
    LET ls == InputLines
        m == LineMarks(ls)
        st == ScanLines(ls, Len(ls))
    IN  /\ (st.current # EmptyStr) <=> (Remainder(ls, m) # << >>)
        /\ st.current # EmptyStr =>
             /\ parsed # << >>
             /\ parsed[Len(parsed)] = Trim(st.current)
             /\ parsed[Len(parsed)] = Trim(JoinLines(Remainder(ls, m)))
             /\ parsed[Len(parsed)] # EmptyStr
             /\ SubSeq(parsed, 1, Len(parsed) - 1) = st.statements
             /\ Len(parsed) = Cardinality(StatementEnds(m)) + 1
             /\ \A k \in 1..(Len(parsed) - 1) : EndsWith(parsed[k], SEMI)

\* C9: two terminated statements, then a statement of two lines without ';'
C9_Witness ==
  /\ parsePc = "done"
  /\ InputLines = << <<"a", ";">>, <<"-", ";">>, <<"a">>, <<"a">> >>
  /\ parsed = << <<"a", ";">>, <<"-", ";">>, <<"a", NL, "a">> >>

\* the statements are the kept lines, group after group: each statement
\* takes as many kept lines as it has lines and is their text, trimmed; what
\* is left after the last statement is blank
RECURSIVE RoundTrip(_, _)
RoundTrip(stmts, kept) ==
  IF stmts = << >>
  THEN \A k \in 1..Len(kept) : Trim(kept[k]) = EmptyStr
  ELSE LET n == Len(SplitLines(Head(stmts)))
       IN  /\ n <= Len(kept)
           /\ Head(stmts) = Trim(JoinLines(SubSeq(kept, 1, n)))
           /\ RoundTrip(Tail(stmts), SubSeq(kept, n + 1, Len(kept)))

\* C10: the lines of the statements returned, in order, are the lines of the
\* script that are not skipped (every line inside a dollar-quoted body, and
\* every line outside one that is neither blank nor a comment), none lost,
\* doubled or moved, but for the blanks trimmed at the two ends of each
\* statement.
C10_RoundTrip ==
  parsePc = "done" =>
    IF parsed = << >>
    THEN KeptLines(InputLines) = << >>
    ELSE RoundTrip(parsed, KeptLines(InputLines))

\* C10: a comment outside a body, dropped though it holds `$$`, and in the
\* body a comment that ends in ';', kept with its leading blank
C10_Witness ==
  /\ parsePc = "done"
  /\ InputLines = << <<"-", "-", "$", "$">>, <<"$", "$">>, <<" ", "-", "-", ";">>,
                     <<"$", "$", ";">> >>
  /\ parsed = << <<"$", "$", NL, " ", "-", "-", ";", NL, "$", "$", ";">> >>

(***************************************************************************)
(* Properties of runMigrationFile and run-migration.js, checked under      *)
(* SpecFile.                                                               *)
(***************************************************************************)
\* a MigrationResult has been produced, by runMigration or by runMigrationFile
ResultProduced == pc = "done" \/ filePc = "returned"

\* the process of run-migration.js has ended
CliEnded == cliPc \in {"usage", "failed", "completed", "fatal"}

\* C11 as stated: in every MigrationResult produced by runMigration or by
\* runMigrationFile the length of errors equals failed, so that errors is
\* non-empty only when failed > 0.
C11_ErrorsMatchFailed ==
  ResultProduced =>
    /\ Len(result.errors) = result.failed
    /\ result.errors # << >> => result.failed > 0

\* C12: when there is no file at the path, runMigrationFile returns at once:
\* the file is not read, the splitter is not run, runMigration is not called,
\* no statement is submitted, no credential is resolved, and the result has
\* total = 0 and successful = 0.
C12_MissingFileStopsAtOnce ==
  file = NoFile =>
    /\ sql = << >> /\ parsePc = "idle" /\ parsed = << >>
    /\ pc = "idle" /\ statements = << >> /\ calls = << >>
    /\ cachedAccessToken = Null /\ tokenLog = << >>
    /\ filePc \in {"idle", "called", "returned"}
    /\ filePc = "returned" =>
         /\ result.total = 0
         /\ result.successful = 0
         /\ result = FileNotFoundResult

\* C12: runMigrationFile has returned for a path with no file, in a process
\* that could have resolved a credential
C12_Witness ==
  /\ file = NoFile
  /\ filePc = "returned"
  /\ cliPc = "idle"
  /\ envToken = "tokE"

\* no credential can be resolved for the first statement of the file
NoCredential ==
  /\ ~Truthy(envToken)
  /\ keychain = KeychainFails
  /\ parsed # << >>

\* C13 as stated: a missing file and an unresolvable credential are both
\* fatal: no statement is submitted and the process ends with a non-zero exit
\* status, never with 'Migration completed successfully'; and a statement
\* that fails remotely is never thrown out of runMigration.
C13_SetupFailuresAreFatal ==
  /\ (CliEnded /\ (file = NoFile \/ NoCredential)) =>
       /\ calls = << >>
       /\ ExitStatus(cliPc) # 0
       /\ cliPc # "completed"
  /\ pc = "thrown" => CallsWith(FailedOutcomes) = {}
  /\ CallsWith(FailedOutcomes) # {} => pc # "thrown" /\ filePc # "thrown"

\* C14: the process exits with a non-zero status whenever result.failed > 0,
\* and gets to 'Migration completed successfully' only with a result whose
\* failed is 0.
C14_ExitFollowsFailed ==
  /\ (CliEnded /\ filePc = "returned" /\ result.failed > 0) =>
       cliPc = "failed" /\ ExitStatus(cliPc) # 0
  /\ cliPc = "completed" =>
       /\ filePc = "returned"
       /\ result.failed = 0
       /\ ExitStatus(cliPc) = 0
  /\ cliPc = "failed" => filePc = "returned" /\ result.failed > 0

\* C14: the process has exited with status 1 after a run in which one
\* statement succeeded and a later one failed
C14_Witness ==
  /\ cliPc = "failed"
  /\ result.successful > 0
  /\ result.failed > 0
  /\ calls[1].outcome = "ok"

\* C19: every statement parseSQLStatements returns is non-empty once trimmed
\* and does not start with `--`; so runMigration passes over no entry of a
\* list that comes from the splitter, every entry it has gone past was
\* submitted, and runMigrationFile without stopOnError returns
\* successful + failed = total.
C19_SplitterGivesStatements ==
  /\ parsePc = "done" =>
       \A k \in DOMAIN parsed :
         /\ Executable(parsed[k])
         /\ ~SkipStatement(Trim(parsed[k]))
  /\ filePc \in {"running", "returned", "thrown"} /\ file # NoFile =>
       /\ statements = parsed
       /\ \A k \in 1..i : k \in SubmittedPositions
  /\ (filePc = "returned" /\ ~stopOnError) =>
       result.successful + result.failed = result.total

\* C19: runMigrationFile has returned for a file of a comment line and two
\* statements, of which one succeeded and one failed
C19_Witness ==
  /\ sql = JoinLines(<< <<" ", "-", "-", ";">>, <<"a", ";">>,
                       <<" ", "b", ";", " ">> >>)
  /\ filePc = "returned"
  /\ ~stopOnError
  /\ result.total = 2
  /\ result.successful = 1
  /\ result.failed = 1

(***************************************************************************)
(* The delay, the silent option, the requests in flight and the            *)
(* credential.                                                             *)
(***************************************************************************)
\* the delays waited after position p or later and before position q
DelaysBetween(p, q) ==
  { d \in DOMAIN delays : delays[d].after >= p /\ delays[d].after < q }

\* C15: between two consecutive submissions the configured delay is waited
\* exactly once, right after the earlier of the two; a delay is waited only
\* after a submission, never after the statement at the last input position,
\* and never after a failure that halts the run under stopOnError.
C15_DelayBetweenSubmissions ==
  /\ \A k \in 1..(Len(calls) - 1) :
       /\ Cardinality(DelaysBetween(calls[k].position,
                                    calls[k + 1].position)) = 1
       /\ \E d \in DOMAIN delays : delays[d].after = calls[k].position
  /\ \A d \in DOMAIN delays :
       /\ delays[d].ms = delayMs
       /\ delays[d].after \in SubmittedPositions
       /\ delays[d].after # Len(statements)
  /\ \A c, d \in DOMAIN delays : c < d => delays[c].after < delays[d].after
  /\ stopOnError =>
       \A k \in CallsWith(FailedOutcomes) :
         /\ DelaysBetween(calls[k].position, Len(statements) + 1) = {}
         /\ pc # "delay"
  /\ pc = "delay" => i + 1 < Len(statements)

\* C15: a run that is over, with three submissions, an entry passed over
\* between the last two, the last one at the last input position, and two
\* delays
C15_Witness ==
  /\ pc = "done"
  /\ Len(calls) = 3
  /\ calls[2].position + 1 < calls[3].position
  /\ calls[3].position = Len(statements)
  /\ Len(delays) = 2
  /\ delayMs = CLI_DELAY_MS

\* C16: silent changes what is printed and nothing else: a call of
\* runMigration with the same statements, delayMs and stopOnError as an
\* earlier one, the other value of silent and the same answers from the
\* remote endpoint submits the same statements in the same order, ends the
\* same way and returns the same total, successful, failed and errors.
C16_SilentOnlyChangesLog ==
  first # NoFirst =>
    /\ \A k \in DOMAIN calls :
         /\ k <= Len(first.calls)
         /\ calls[k].position = first.calls[k].position
         /\ calls[k].query = first.calls[k].query
    /\ pc \in {"done", "thrown"} =>
         /\ pc = first.pc
         /\ Len(calls) = Len(first.calls)
         /\ result = first.result

\* C16: a silent call is over after one that was not, both with a statement
\* that succeeded and one that failed, and what they printed differs
C16_Witness ==
  /\ first # NoFirst
  /\ silent
  /\ pc = "done"
  /\ result.successful > 0
  /\ result.failed > 0
  /\ log # first.log
  /\ Len(log) < Len(first.log)

\* C17: at most one request is in flight at any time: every request but the
\* latest has its answer, the latest is unanswered exactly while runMigration
\* awaits it, and the run goes on to the next entry, halts or returns only
\* with the answer of the latest request.
C17_OneCallInFlight ==
  /\ Cardinality(CallsWith({"pending"})) <= 1
  /\ \A k \in DOMAIN calls : k < Len(calls) => calls[k].outcome # "pending"
  /\ pc = "exec" <=> CallsWith({"pending"}) # {}
  /\ pc = "exec" => calls[Len(calls)].position = i + 1
  /\ pc = "halt" =>
       /\ calls # << >>
       /\ calls[Len(calls)].outcome \in FailedOutcomes
       /\ calls[Len(calls)].position = i + 1

\* C17: the third request is in flight and the two before it have their
\* answers, one of them a failure
C17_Witness ==
  /\ pc = "exec"
  /\ Len(calls) = 3
  /\ calls[1].outcome \in FailedOutcomes
  /\ calls[2].outcome = "ok"

\* no clearTokenCache came between the calls j and k of getAccessToken
NotClearedBetween(j, k) == \A m \in (j + 1)..k : ~tokenLog[m].cleared

====
